---- MODULE Spec2Model ----
(***************************************************************************)
(* The benchmark programme AA_LD4 as state machines over one set of        *)
(* variables; each specification drives its own group and leaves the       *)
(* others at their idle values.                                            *)
(*                                                                         *)
(*   Spec           one call of a runner, and its caller                   *)
(*                  src/src/benchmarks/subset_sum_benchmark.py             *)
(*                  src/src/benchmarks/shortest_path_benchmark.py          *)
(*   SpecTwoRuns    two calls of a runner with the same arguments          *)
(*   SpecTimer      time_function            src/src/utils/timer.py        *)
(*   SpecSubsetSum  the three subset-sum functions                         *)
(*                  src/src/algorithms/subset_sum.py                       *)
(*   SpecDijkstra   dijkstra_shortest_path                                 *)
(*                  src/src/algorithms/shortest_path.py                    *)
(*   SpecGrowth     the growth-rate gate                                   *)
(*                  src/src/benchmarks/compare_algorithms.py               *)
(*   SpecHard       create_hard_subset_sum_instance                        *)
(*                  src/src/utils/graph_utils.py                           *)
(*   SpecGen        generate_random_graph    src/src/utils/graph_utils.py  *)
(*   SpecSubjects   a call of any subset-sum function or of Dijkstra       *)
(*   FairSpecDijkstra  dijkstra_shortest_path followed to its end          *)
(*                                                                         *)
(* In a runner the subject call made by time_function is split in two      *)
(* steps (the call, and its return or its MemoryError); the measured       *)
(* duration of a trial is an input.  Averages are kept as exact fractions  *)
(* num/den, so no rounding is modelled.                                    *)
(***************************************************************************)
EXTENDS Integers, Sequences, FiniteSets, TLC

(* ---------------------------- bounds ----------------------------------- *)
MaxSizes == 2        \* longest requested size list
MaxTrials == 3       \* largest num_trials
MaxNeg == 1          \* num_trials goes down to -MaxNeg

(* ----------------------- program constants ----------------------------- *)
BT_TRIAL_CEILING == 300
DP_TRIAL_CEILING == 300
WC_TRIAL_CEILING == 600
WC_SERIES_CEILING == 900

Runners ==
    {"benchmark_backtracking", "benchmark_dynamic_programming",
     "benchmark_worst_case", "benchmark_shortest_path"}

\* The subset-sum runners that have a per-trial cutoff.
CutoffRunners ==
    {"benchmark_backtracking", "benchmark_dynamic_programming",
     "benchmark_worst_case"}

\* Requested sizes: below, at and above each runner's trial-reduction thresholds.
SizeChoices(r) ==
    CASE r = "benchmark_backtracking" -> {5, 30, 32}
      [] r = "benchmark_dynamic_programming" -> {5, 500, 1000}
      [] r = "benchmark_worst_case" -> {5, 24}
      [] OTHER -> {10, 50}

\* Measured durations in seconds: under every cutoff, over 300, over 600, over 900.
Durations == {1, 301, 601, 901}

SeqsUpTo(S, n) == UNION {[1..k -> S] : k \in 0..n}

Min(a, b) == IF a <= b THEN a ELSE b

\* The loop variable `trial` before its first assignment.
Unbound == -1

\* total_time is a float: a number or float('nan').
Num(v) == [nan |-> FALSE, v |-> v]
NaN == [nan |-> TRUE, v |-> 0]

VARIABLES
    runner,         \* the runner called
    sizes,          \* argument sizes
    num_trials,     \* argument num_trials
    pc,             \* position in the runner
    si,             \* number of sizes the for loop has taken; size = sizes[si]
    actual_trials,  \* local actual_trials (num_trials in benchmark_shortest_path)
    ti,             \* next value of range(actual_trials)
    trial,          \* loop variable trial; it survives the loop and the size
    total_time,     \* local total_time
    times,          \* local times: the averages appended so far
    results,        \* local results of benchmark_worst_case: (size, avg_time) pairs
    ret,            \* the returned pair, once returned
    exc,            \* the exception that left the runner, or "none"
    calls,          \* history: subject calls made
    active,         \* history: subject calls in progress
    durs,           \* history: durations of the trials completed at this size
    samples,        \* history: per average appended, what it was computed from
    memErrs,        \* history: MemoryErrors the subject raised
    maxd,           \* history: largest duration measured in the run
    caller,         \* run_all_benchmarks / run_benchmark, after the runner returned
    run,            \* 1, or 2 in the second of two calls with the same arguments
    first,          \* what the first of the two calls returned and ran
    tf_pc,          \* time_function: "idle", "entry", "call", "in_func",
                    \* "after_func", "returned" or "raised"
    tf_args,        \* time_function: the arguments given for func
    func_calls,     \* history: the argument tuples func was called with
    func_result,    \* history: what func returned
    tf_result,      \* time_function's first return value
    wall,           \* what time.time() reads now
    start_time,     \* time_function's local
    end_time,       \* time_function's local
    elapsed,        \* history: the seconds that passed inside func
    execution_time, \* time_function's second return value
    nums,           \* subset sum: the list given to the three algorithms
    target,         \* subset sum: the target given to them
    bt_result,      \* what subset_sum_backtracking(nums, target) did
    ex_result,      \* what subset_sum_exhaustive(nums, target) did
    ex_leaves,      \* history: the leaves its backtrack evaluated
    dp_result,      \* what subset_sum_dynamic(nums, target) did
    graph,          \* Dijkstra: argument graph, vertex -> list of (neighbor, weight)
    start,          \* Dijkstra: argument start
    distances,      \* Dijkstra: local distances
    priority_queue, \* Dijkstra: the (distance, vertex) entries of the heap
    dj_pc,          \* Dijkstra: "idle", "entry", "loop", "returned" or "raised"
    gr_sizes,       \* growth rate: the sizes of the series given to the estimator
    gr_times,       \* growth rate: its times
    growth_rate,    \* what calculate_growth_rate(sizes, times) returned
    trend_line,     \* what plot_execution_times fitted for its trend line
    hi_size,        \* hard instance: argument size
    hi_nums,        \* hard instance: the returned list
    hi_target,      \* hard instance: the returned target
    hi_pc,          \* hard instance: "idle", "entry" or "returned"
    hi_results,     \* hard instance: what the three algorithms answer on it
    gen_n,          \* generate_random_graph: argument n
    gen_graph,      \* generate_random_graph: local graph
    gen_i,          \* generate_random_graph: loop variable i
    gen_j,          \* generate_random_graph: loop variable j
    gen_pc          \* generate_random_graph: "idle", "loop" or "returned"

runnerVars == <<runner, sizes, num_trials, pc, si, actual_trials, ti, trial,
                total_time, times, results, ret, exc, calls, active, durs, samples,
                memErrs, maxd>>

\* The state around one call: its caller, and the call before it.
outer == <<caller, run, first>>

timerVars == <<tf_pc, tf_args, func_calls, func_result, tf_result, wall,
               start_time, end_time, elapsed, execution_time>>

subsetVars == <<nums, target, bt_result, ex_result, ex_leaves, dp_result>>

dijkstraVars == <<graph, start, distances, priority_queue, dj_pc>>

growthVars == <<gr_sizes, gr_times, growth_rate, trend_line>>

hardVars == <<hi_size, hi_nums, hi_target, hi_pc, hi_results>>

genVars == <<gen_n, gen_graph, gen_i, gen_j, gen_pc>>

\* The state of the other specifications of this module.
notRunner == <<timerVars, subsetVars, dijkstraVars, growthVars, hardVars, genVars>>
notTimer == <<runnerVars, outer, subsetVars, dijkstraVars, growthVars, hardVars, genVars>>
notSubset == <<runnerVars, outer, timerVars, dijkstraVars, growthVars, hardVars, genVars>>
notDijkstra == <<runnerVars, outer, timerVars, subsetVars, growthVars, hardVars, genVars>>
notGrowth == <<runnerVars, outer, timerVars, subsetVars, dijkstraVars, hardVars, genVars>>
notHard == <<runnerVars, outer, timerVars, subsetVars, dijkstraVars, growthVars, genVars>>
notGen == <<runnerVars, outer, timerVars, subsetVars, dijkstraVars, growthVars, hardVars>>

\* time_function is not called.
TimerIdle ==
    /\ tf_pc = "idle"
    /\ tf_args = <<>>
    /\ func_calls = <<>>
    /\ func_result = "none"
    /\ tf_result = "none"
    /\ wall = 0
    /\ start_time = 0
    /\ end_time = 0
    /\ elapsed = 0
    /\ execution_time = 0

\* No subset-sum algorithm is called.
SubsetIdle ==
    /\ nums = <<>>
    /\ target = 0
    /\ bt_result = "idle"
    /\ ex_result = "idle"
    /\ ex_leaves = 0
    /\ dp_result = "idle"

\* dijkstra_shortest_path is not called.
DijkstraIdle ==
    /\ graph = <<>>
    /\ start = 0
    /\ distances = <<>>
    /\ priority_queue = {}
    /\ dj_pc = "idle"

\* No series is given to the growth-rate estimator.
GrowthIdle ==
    /\ gr_sizes = <<>>
    /\ gr_times = <<>>
    /\ growth_rate = [kind |-> "idle", log_sizes |-> <<>>, log_times |-> <<>>]
    /\ trend_line = [kind |-> "idle", log_sizes |-> <<>>, log_times |-> <<>>]

\* create_hard_subset_sum_instance is not called.
HardIdle ==
    /\ hi_size = 0
    /\ hi_nums = <<>>
    /\ hi_target = 0
    /\ hi_pc = "idle"
    /\ hi_results = <<>>

\* generate_random_graph is not called.
GenIdle ==
    /\ gen_n = 0
    /\ gen_graph = <<>>
    /\ gen_i = 0
    /\ gen_j = 0
    /\ gen_pc = "idle"

\* None of the other specifications runs.
Idle == TimerIdle /\ SubsetIdle /\ DijkstraIdle /\ GrowthIdle /\ HardIdle /\ GenIdle

vars == <<runnerVars, outer, notRunner>>

inputs == <<runner, sizes, num_trials>>

None == [sizes |-> <<>>, times |-> <<>>, set |-> FALSE]

\* No first call yet.
NoFirst == [set |-> FALSE]

(* ------------------------- the code's decisions ------------------------ *)

\* The reduced counts written as constants, without min(., num_trials).
ActualTrialsFixed(r, size, n) ==
    CASE r = "benchmark_backtracking" ->
            IF size >= 32 THEN 2 ELSE IF size >= 30 THEN 3 ELSE n
      [] r = "benchmark_dynamic_programming" ->
            IF size >= 1000 THEN 1 ELSE IF size >= 500 THEN 2 ELSE n
      [] r = "benchmark_worst_case" ->
            IF size >= 24 THEN 1 ELSE n
      [] OTHER -> n

\* The two reductions of benchmark_backtracking taken in the other order.
ActualTrialsSwapped(r, size, n) ==
    CASE r = "benchmark_backtracking" ->
            IF size >= 32 THEN Min(3, n)
            ELSE IF size >= 30 THEN Min(2, n) ELSE n
      [] r = "benchmark_dynamic_programming" ->
            IF size >= 1000 THEN 1
            ELSE IF size >= 500 THEN Min(2, n) ELSE n
      [] r = "benchmark_worst_case" ->
            IF size >= 24 THEN 1 ELSE n
      [] OTHER -> n

\* "Adaptively reduce trials for extremely large inputs"
ActualTrials(r, size, n) ==
    CASE r = "benchmark_backtracking" ->
            IF size >= 32 THEN Min(2, n)
            ELSE IF size >= 30 THEN Min(3, n) ELSE n
      [] r = "benchmark_dynamic_programming" ->
            IF size >= 1000 THEN 1
            ELSE IF size >= 500 THEN Min(2, n) ELSE n
      [] r = "benchmark_worst_case" ->
            IF size >= 24 THEN 1 ELSE n
      [] OTHER -> n

\* The per-trial ceiling T of a runner that has one.
TrialCeiling(r) ==
    CASE r = "benchmark_backtracking" -> BT_TRIAL_CEILING
      [] r = "benchmark_dynamic_programming" -> DP_TRIAL_CEILING
      [] OTHER -> WC_TRIAL_CEILING

\* A forgotten break: the trial loop never stops early.
PerTrialCutoffAbsent(r, d) == FALSE

\* The break copied with the wrong ceiling: the 900 s of the series cutoff.
PerTrialCutoffWrongCeiling(r, d) == r \in CutoffRunners /\ d > WC_SERIES_CEILING

\* The break of benchmark_backtracking copied unchanged into every runner.
PerTrialCutoffCopied(r, d) == r \in CutoffRunners /\ d > BT_TRIAL_CEILING

\* `if execution_time > 300: break` (600 in benchmark_worst_case; none for Dijkstra)
PerTrialCutoff(r, d) == r \in CutoffRunners /\ d > TrialCeiling(r)

\* No handler at all: MemoryError leaves every runner.
CatchesNothing(r) == FALSE

\* `except MemoryError:` exists around the trial of benchmark_dynamic_programming only.
CatchesMemoryError(r) == r = "benchmark_dynamic_programming"

\* The divisor of the average: trial + 1, or num_trials in benchmark_shortest_path.
Divisor(r, t, n) == IF r = "benchmark_shortest_path" THEN n ELSE t + 1

\* No series-level break.
SeriesCutoffAbsent(r, avg) == FALSE

\* The series-level break taken at the per-trial ceiling of 600 s.
SeriesCutoffAtTrialCeiling(r, avg) ==
    /\ r = "benchmark_worst_case"
    /\ avg.num > WC_TRIAL_CEILING * avg.den

\* `if avg_time > 900: break` of benchmark_worst_case; avg is the fraction num/den.
SeriesCutoff(r, avg) ==
    /\ r = "benchmark_worst_case"
    /\ avg.num > WC_SERIES_CEILING * avg.den

\* The first element of the returned pair.
ReturnedSizes(r, s, t, res) ==
    CASE r = "benchmark_dynamic_programming" -> SubSeq(s, 1, Len(t))
      [] r = "benchmark_worst_case" -> [i \in 1..Len(res) |-> res[i][1]]
      [] OTHER -> s

\* The second element of the returned pair.
ReturnedTimes(r, t, res) ==
    IF r = "benchmark_worst_case" THEN [i \in 1..Len(res) |-> res[i][2]] ELSE t

(* ------------------------------ history -------------------------------- *)
RECURSIVE SumSeq(_)
SumSeq(s) == IF s = <<>> THEN 0 ELSE s[1] + SumSeq(Tail(s))

\* The trial's duration exceeded the per-trial timeout T of the runner.
Exceeds(r, d) == r \in CutoffRunners /\ d > TrialCeiling(r)

\* What an average appended now is computed from.
Sample(r, idx, ds) ==
    [idx |-> idx,
     sum |-> SumSeq(ds),
     cnt |-> Len(ds),
     over |-> Cardinality({i \in 1..Len(ds) : Exceeds(r, ds[i])}),
     early |-> Cardinality({i \in 1..Len(ds) - 1 : Exceeds(r, ds[i])})]

(* ------------------------------- Init ---------------------------------- *)
\* The runner is entered: its locals before the first size.
Entered ==
    /\ pc = "for_size"
    /\ si = 0
    /\ actual_trials = 0
    /\ ti = 0
    /\ trial = Unbound
    /\ total_time = Num(0)
    /\ times = <<>>
    /\ results = <<>>
    /\ ret = None
    /\ exc = "none"
    /\ calls = 0
    /\ active = 0
    /\ durs = <<>>
    /\ samples = <<>>
    /\ memErrs = 0
    /\ maxd = 0

Init ==
    /\ runner \in Runners
    /\ sizes \in SeqsUpTo(SizeChoices(runner), MaxSizes)
    /\ num_trials \in (0 - MaxNeg)..MaxTrials
    /\ Entered
    /\ caller = "waiting"
    /\ run = 1
    /\ first = NoFirst
    /\ Idle

(* ------------------------------ actions -------------------------------- *)

\* `for size in sizes:` takes the next size, or the loop ends.
NextSize ==
    /\ pc = "for_size"
    /\ IF si < Len(sizes)
       THEN /\ si' = si + 1
            /\ total_time' = Num(0)
            /\ actual_trials' = ActualTrials(runner, sizes[si + 1], num_trials)
            /\ ti' = 0
            /\ durs' = <<>>
            /\ pc' = "for_trial"
       ELSE /\ pc' = "return"
            /\ UNCHANGED <<si, total_time, actual_trials, ti, durs>>
    /\ UNCHANGED <<inputs, trial, times, results, ret, exc, calls, active,
                   samples, memErrs, maxd>>
    /\ UNCHANGED <<outer, notRunner>>

\* `for trial in range(actual_trials):` binds trial and calls time_function,
\* or the range is exhausted.
NextTrial ==
    /\ pc = "for_trial"
    /\ IF ti < actual_trials
       THEN /\ trial' = ti
            /\ ti' = ti + 1
            /\ calls' = calls + 1
            /\ active' = active + 1
            /\ pc' = "in_trial"
       ELSE /\ pc' = "after_trials"
            /\ UNCHANGED <<trial, ti, calls, active>>
    /\ UNCHANGED <<inputs, si, actual_trials, total_time, times, results, ret,
                   exc, durs, samples, memErrs, maxd>>
    /\ UNCHANGED <<outer, notRunner>>

\* The average appended inside the trial loop, after every trial.
TrialReturnsEmitting(d) ==
    /\ pc = "in_trial"
    /\ active' = active - 1
    /\ total_time' = Num(total_time.v + d)
    /\ durs' = Append(durs, d)
    /\ maxd' = IF d > maxd THEN d ELSE maxd
    /\ times' = Append(times, [num |-> total_time.v + d, den |-> trial + 1])
    /\ samples' = Append(samples, Sample(runner, si, Append(durs, d)))
    /\ pc' = IF PerTrialCutoff(runner, d) THEN "after_trials" ELSE "for_trial"
    /\ UNCHANGED <<inputs, si, actual_trials, ti, trial, results, ret,
                   exc, calls, memErrs>>
    /\ UNCHANGED <<outer, notRunner>>

\* time_function returns (result, d): accumulate, then the per-trial cutoff.
TrialReturns(d) ==
    /\ pc = "in_trial"
    /\ active' = active - 1
    /\ total_time' = Num(total_time.v + d)
    /\ durs' = Append(durs, d)
    /\ maxd' = IF d > maxd THEN d ELSE maxd
    /\ pc' = IF PerTrialCutoff(runner, d) THEN "after_trials" ELSE "for_trial"
    /\ UNCHANGED <<inputs, si, actual_trials, ti, trial, times, results, ret,
                   exc, calls, samples, memErrs>>
    /\ UNCHANGED <<outer, notRunner>>

\* The subject raises MemoryError; time_function lets it through.
TrialRaises ==
    /\ pc = "in_trial"
    /\ active' = active - 1
    /\ memErrs' = memErrs + 1
    /\ IF CatchesMemoryError(runner)
       THEN /\ total_time' = IF trial = 0 THEN NaN ELSE total_time
            /\ pc' = "after_trials"
            /\ exc' = exc
       ELSE /\ pc' = "raised"
            /\ exc' = "MemoryError"
            /\ total_time' = total_time
    /\ UNCHANGED <<inputs, si, actual_trials, ti, trial, times, results, ret,
                   calls, durs, samples, maxd>>
    /\ UNCHANGED <<outer, notRunner>>

\* After the trial loop: the average of the size, and the series cutoff.
FinishSize ==
    /\ pc = "after_trials"
    /\ IF total_time.nan
       THEN \* "Skip this size in results"
            /\ pc' = "for_size"
            /\ UNCHANGED <<times, results, samples, exc>>
       ELSE IF runner # "benchmark_shortest_path" /\ trial = Unbound
       THEN /\ pc' = "raised"
            /\ exc' = "UnboundLocalError"
            /\ UNCHANGED <<times, results, samples>>
       ELSE IF Divisor(runner, trial, num_trials) = 0
       THEN /\ pc' = "raised"
            /\ exc' = "ZeroDivisionError"
            /\ UNCHANGED <<times, results, samples>>
       ELSE LET avg == [num |-> total_time.v,
                        den |-> Divisor(runner, trial, num_trials)]
            IN /\ IF runner = "benchmark_worst_case"
                  THEN /\ results' = Append(results, <<sizes[si], avg>>)
                       /\ times' = times
                  ELSE /\ times' = Append(times, avg)
                       /\ results' = results
               /\ samples' = Append(samples, Sample(runner, si, durs))
               /\ pc' = IF SeriesCutoff(runner, avg) THEN "return" ELSE "for_size"
               /\ exc' = exc
    /\ UNCHANGED <<inputs, si, actual_trials, ti, trial, total_time, ret, calls,
                   active, durs, memErrs, maxd>>
    /\ UNCHANGED <<outer, notRunner>>

\* The return statement; zip(*results) of an empty list cannot be unpacked.
Return ==
    /\ pc = "return"
    /\ IF runner = "benchmark_worst_case" /\ results = <<>>
       THEN /\ pc' = "raised"
            /\ exc' = "ValueError"
            /\ ret' = ret
       ELSE /\ pc' = "done"
            /\ ret' = [sizes |-> ReturnedSizes(runner, sizes, times, results),
                       times |-> ReturnedTimes(runner, times, results),
                       set |-> TRUE]
            /\ exc' = exc
    /\ UNCHANGED <<inputs, si, actual_trials, ti, trial, total_time, times,
                   results, calls, active, durs, samples, memErrs, maxd>>
    /\ UNCHANGED <<outer, notRunner>>

\* The six steps of a runner.
RunnerStep ==
    \/ NextSize
    \/ NextTrial
    \/ \E d \in Durations : TrialReturns(d)
    \/ TrialRaises
    \/ FinishSize
    \/ Return

\* The caller after the runner's call: an exception of the runner passes through
\* it; a returned series goes to plot_execution_times with expected_complexity
\* set, where max(times) of an empty series raises ValueError; otherwise the
\* summary line max(sizes), times[-1] is printed.
CallerReports ==
    /\ caller = "waiting"
    /\ pc \in {"done", "raised"}
    /\ caller' = IF pc = "raised" \/ ret.times = <<>> THEN "raised" ELSE "reported"
    /\ UNCHANGED <<runnerVars, run, first, notRunner>>

Next ==
    \/ RunnerStep
    \/ CallerReports

Spec == Init /\ [][Next]_vars

(* ------------------- two calls with the same arguments ------------------ *)

\* Longest size list and largest num_trials of the two calls.
PairMaxSizes == 1
PairMaxTrials == 2

\* Per average appended: whether a cutoff fired at its size.
CutAt ==
    [i \in 1..Len(samples) |->
        \/ samples[i].over > 0
        \/ SeriesCutoff(runner, ReturnedTimes(runner, times, results)[i])]

\* Per average appended: the position of its size and the trials that ran there.
RanAt == [i \in 1..Len(samples) |-> <<samples[i].idx, samples[i].cnt>>]

InitTwoRuns ==
    /\ runner \in Runners
    /\ sizes \in SeqsUpTo(SizeChoices(runner), PairMaxSizes)
    /\ num_trials \in 1..PairMaxTrials
    /\ Entered
    /\ caller = "waiting"
    /\ run = 1
    /\ first = NoFirst
    /\ Idle

\* The first call is over; the runner is called again with the same arguments.
Rerun ==
    /\ run = 1
    /\ pc \in {"done", "raised"}
    /\ run' = 2
    /\ first' = [set |-> TRUE, done |-> pc = "done", ret |-> ret, ran |-> RanAt,
                 cut |-> CutAt, memErrs |-> memErrs]
    /\ pc' = "for_size"
    /\ si' = 0
    /\ actual_trials' = 0
    /\ ti' = 0
    /\ trial' = Unbound
    /\ total_time' = Num(0)
    /\ times' = <<>>
    /\ results' = <<>>
    /\ ret' = None
    /\ exc' = "none"
    /\ calls' = 0
    /\ active' = 0
    /\ durs' = <<>>
    /\ samples' = <<>>
    /\ memErrs' = 0
    /\ maxd' = 0
    /\ UNCHANGED <<inputs, caller, notRunner>>

NextTwoRuns ==
    \/ RunnerStep
    \/ Rerun

SpecTwoRuns == InitTwoRuns /\ [][NextTwoRuns]_vars

(* ----------------------------- time_function --------------------------- *)

\* Largest clock reading at entry, longest subject call, largest reading.
MaxClock == 3
MaxElapsed == 3
MaxWall == 8

\* The steps by which the system clock is set while the subject runs.
ClockSteps == {0 - 2, 0 - 1, 1}

\* No runner is called.
RunnerIdle ==
    /\ runner = "benchmark_shortest_path"
    /\ sizes = <<>>
    /\ num_trials = 0
    /\ Entered
    /\ caller = "waiting"
    /\ run = 1
    /\ first = NoFirst

\* The arguments given for func, and what func may return.
ArgChoices == SeqsUpTo({0, 1}, 2)
ResultChoices == {"result", "None"}

\* The call made with one argument less.
ForwardedWithoutFirst(args) == SubSeq(args, 2, Len(args))

\* `func(*args, **kwargs)`: the arguments func is called with.
Forwarded(args) == args

InitTimer ==
    /\ RunnerIdle
    /\ GenIdle
    /\ HardIdle
    /\ SubsetIdle
    /\ DijkstraIdle
    /\ GrowthIdle
    /\ tf_pc = "entry"
    /\ tf_args \in ArgChoices
    /\ func_calls = <<>>
    /\ func_result = "none"
    /\ tf_result = "none"
    /\ wall \in 0..MaxClock
    /\ start_time = 0
    /\ end_time = 0
    /\ elapsed = 0
    /\ execution_time = 0

\* `start_time = time.time()`
ReadStart ==
    /\ tf_pc = "entry"
    /\ start_time' = wall
    /\ tf_pc' = "call"
    /\ UNCHANGED <<wall, end_time, elapsed, execution_time>>
    /\ UNCHANGED <<tf_args, func_calls, func_result, tf_result>>
    /\ UNCHANGED notTimer

\* `func(*args, **kwargs)` is entered.
CallFunc ==
    /\ tf_pc = "call"
    /\ func_calls' = Append(func_calls, Forwarded(tf_args))
    /\ tf_pc' = "in_func"
    /\ UNCHANGED <<wall, start_time, end_time, elapsed, execution_time>>
    /\ UNCHANGED <<tf_args, func_result, tf_result>>
    /\ UNCHANGED notTimer

\* One second passes in `result = func(*args, **kwargs)`.
Tick ==
    /\ tf_pc = "in_func"
    /\ elapsed < MaxElapsed
    /\ wall < MaxWall
    /\ wall' = wall + 1
    /\ elapsed' = elapsed + 1
    /\ UNCHANGED <<tf_pc, start_time, end_time, execution_time>>
    /\ UNCHANGED <<tf_args, func_calls, func_result, tf_result>>
    /\ UNCHANGED notTimer

\* The system clock, which time.time() reads, is set while func runs.
ClockSet(step) ==
    /\ tf_pc = "in_func"
    /\ wall + step \in 0..MaxWall
    /\ wall' = wall + step
    /\ UNCHANGED <<tf_pc, start_time, end_time, elapsed, execution_time>>
    /\ UNCHANGED <<tf_args, func_calls, func_result, tf_result>>
    /\ UNCHANGED notTimer

\* func returns r: `result = ...`.
FuncReturns(r) ==
    /\ tf_pc = "in_func"
    /\ func_result' = r
    /\ tf_result' = r
    /\ tf_pc' = "after_func"
    /\ UNCHANGED <<wall, start_time, end_time, elapsed, execution_time>>
    /\ UNCHANGED <<tf_args, func_calls>>
    /\ UNCHANGED notTimer

\* func raises: time_function has no handler, the exception leaves it.
FuncRaises ==
    /\ tf_pc = "in_func"
    /\ tf_pc' = "raised"
    /\ UNCHANGED <<wall, start_time, end_time, elapsed, execution_time>>
    /\ UNCHANGED <<tf_args, func_calls, func_result, tf_result>>
    /\ UNCHANGED notTimer

\* `end_time = time.time()`, `return result, end_time - start_time`.
ReadEnd ==
    /\ tf_pc = "after_func"
    /\ end_time' = wall
    /\ execution_time' = wall - start_time
    /\ tf_pc' = "returned"
    /\ UNCHANGED <<wall, start_time, elapsed>>
    /\ UNCHANGED <<tf_args, func_calls, func_result, tf_result>>
    /\ UNCHANGED notTimer

NextTimer ==
    \/ ReadStart
    \/ CallFunc
    \/ Tick
    \/ \E step \in ClockSteps : ClockSet(step)
    \/ \E r \in ResultChoices : FuncReturns(r)
    \/ FuncRaises
    \/ ReadEnd

SpecTimer == InitTimer /\ [][NextTimer]_vars

(* ------------------------ the subset-sum algorithms -------------------- *)

\* Longest list, largest element, largest magnitude of a negative element,
\* largest target, largest magnitude of a negative target.
MaxNums == 3
MaxNum == 3
NegNum == 2
MaxTarget == 6
NegTarget == 1

\* `[n for n in nums if n <= target]`
Filtered(ns, t) == SelectSeq(ns, LAMBDA n : n <= t)

\* list.sort(): ascending.
RECURSIVE Insert(_, _)
Insert(x, ns) ==
    IF ns = <<>> THEN <<x>>
    ELSE IF x <= Head(ns) THEN <<x>> \o ns
    ELSE <<Head(ns)>> \o Insert(x, Tail(ns))

RECURSIVE Sorted(_)
Sorted(ns) == IF ns = <<>> THEN <<>> ELSE Insert(Head(ns), Sorted(Tail(ns)))

\* backtrack(index, current_sum) of subset_sum_backtracking; index counts from 0.
RECURSIVE BacktrackPruned(_, _, _, _)
BacktrackPruned(ns, t, index, current_sum) ==
    IF current_sum = t THEN TRUE
    ELSE IF index >= Len(ns) \/ current_sum > t THEN FALSE
    ELSE IF BacktrackPruned(ns, t, index + 1, current_sum + ns[index + 1]) THEN TRUE
    ELSE BacktrackPruned(ns, t, index + 1, current_sum)

PyBool(b) == IF b THEN "True" ELSE "False"

subset_sum_backtracking(ns, t) ==
    PyBool(BacktrackPruned(Sorted(Filtered(ns, t)), t, 0, 0))

\* backtrack(index, current_sum) of subset_sum_exhaustive.
RECURSIVE BacktrackAll(_, _, _, _)
BacktrackAll(ns, t, index, current_sum) ==
    IF index = Len(ns) THEN current_sum = t
    ELSE LET include == BacktrackAll(ns, t, index + 1, current_sum + ns[index + 1])
             exclude == BacktrackAll(ns, t, index + 1, current_sum)
         IN include \/ exclude

subset_sum_exhaustive(ns, t) == PyBool(BacktrackAll(ns, t, 0, 0))

\* The exclude branch skipped once the include branch has found a subset.
ExcludeCalledUnlessFound(include) == ~include

\* `exclude = backtrack(index + 1, current_sum)` is a statement of its own,
\* run whatever include is; `include or exclude` comes after both calls.
ExcludeCalled(include) == TRUE

\* The calls of backtrack(index, current_sum) of subset_sum_exhaustive that
\* reach `return current_sum == target`.
RECURSIVE LeavesAll(_, _, _, _)
LeavesAll(ns, t, index, current_sum) ==
    IF index = Len(ns) THEN 1
    ELSE LET include == BacktrackAll(ns, t, index + 1, current_sum + ns[index + 1])
         IN LeavesAll(ns, t, index + 1, current_sum + ns[index + 1])
            + (IF ExcludeCalled(include)
               THEN LeavesAll(ns, t, index + 1, current_sum)
               ELSE 0)

\* The table filled upward: range(num, target + 1).
DpRangeUpward(t, num) ==
    [k \in 1..(IF t - num + 1 > 0 THEN t - num + 1 ELSE 0) |-> num + k - 1]

\* `range(target, num - 1, -1)`
DpRange(t, num) ==
    [k \in 1..(IF t - num + 1 > 0 THEN t - num + 1 ELSE 0) |-> t - k + 1]

\* A list index Python accepts: -len <= i < len.
InRange(i, len) == 0 - len <= i /\ i < len

\* The position (from 1) of list index i, negative indices counting from the end.
Pos(i, len) == IF i >= 0 THEN i + 1 ELSE len + i + 1

\* The inner loop: `dp[i] = dp[i] or dp[i - num]` for the i of is, `or` reading
\* its right operand only when the left one is False.
RECURSIVE DpInner(_, _, _)
DpInner(st, num, is) ==
    IF st.err \/ is = <<>> THEN st
    ELSE LET i == Head(is)
             len == Len(st.dp)
         IN IF ~InRange(i, len) THEN [st EXCEPT !.err = TRUE]
            ELSE IF st.dp[Pos(i, len)] THEN DpInner(st, num, Tail(is))
            ELSE IF ~InRange(i - num, len) THEN [st EXCEPT !.err = TRUE]
            ELSE DpInner([st EXCEPT !.dp[Pos(i, len)] = st.dp[Pos(i - num, len)]],
                         num, Tail(is))

\* `for num in nums:`
RECURSIVE DpOuter(_, _, _)
DpOuter(st, ns, t) ==
    IF st.err \/ ns = <<>> THEN st
    ELSE DpOuter(DpInner(st, Head(ns), DpRange(t, Head(ns))), Tail(ns), t)

subset_sum_dynamic(ns, t) ==
    IF t + 1 <= 0
    THEN "IndexError"      \* dp = [] and `dp[0] = True`
    ELSE LET dp0 == [k \in 1..(t + 1) |-> k = 1]
             st == DpOuter([err |-> FALSE, dp |-> dp0], Filtered(ns, t), t)
         IN IF st.err THEN "IndexError" ELSE PyBool(st.dp[t + 1])

\* The lists of a call: "caller" is the list object the caller passed, obj
\* the object the parameter name nums refers to.

\* The caller's list filtered in place, the name still bound to it.
BoundAfterFilterInPlace(ns, t) ==
    [obj |-> "caller", heap |-> [caller |-> Filtered(ns, t), fresh |-> <<>>]]

\* `nums = [n for n in nums if n <= target]`: the comprehension builds a new
\* list and the name is rebound to it.
BoundAfterFilter(ns, t) ==
    [obj |-> "fresh", heap |-> [caller |-> ns, fresh |-> Filtered(ns, t)]]

\* `nums.sort()`: the list the name refers to is sorted in place.
SortBound(b) == [b EXCEPT !.heap[b.obj] = Sorted(@)]

\* The caller's list when subset_sum_backtracking returns.
CallerAfterBacktracking(ns, t) == SortBound(BoundAfterFilter(ns, t)).heap.caller

\* The caller's list when subset_sum_dynamic returns.
CallerAfterDynamic(ns, t) == BoundAfterFilter(ns, t).heap.caller

InitSubsetSum ==
    /\ RunnerIdle
    /\ GenIdle
    /\ HardIdle
    /\ TimerIdle
    /\ DijkstraIdle
    /\ GrowthIdle
    /\ nums \in SeqsUpTo((0 - NegNum)..MaxNum, MaxNums)
    /\ target \in (0 - NegTarget)..MaxTarget
    /\ bt_result = "not called"
    /\ ex_result = "not called"
    /\ ex_leaves = 0
    /\ dp_result = "not called"

CallBacktracking ==
    /\ bt_result = "not called"
    /\ bt_result' = subset_sum_backtracking(nums, target)
    /\ nums' = CallerAfterBacktracking(nums, target)
    /\ UNCHANGED <<target, ex_result, ex_leaves, dp_result>>
    /\ UNCHANGED notSubset

CallExhaustive ==
    /\ ex_result = "not called"
    /\ ex_result' = subset_sum_exhaustive(nums, target)
    /\ ex_leaves' = LeavesAll(nums, target, 0, 0)
    /\ UNCHANGED <<nums, target, bt_result, dp_result>>
    /\ UNCHANGED notSubset

CallDynamic ==
    /\ dp_result = "not called"
    /\ dp_result' = subset_sum_dynamic(nums, target)
    /\ nums' = CallerAfterDynamic(nums, target)
    /\ UNCHANGED <<target, bt_result, ex_result, ex_leaves>>
    /\ UNCHANGED notSubset

NextSubsetSum ==
    \/ CallBacktracking
    \/ CallExhaustive
    \/ CallDynamic

SpecSubsetSum == InitSubsetSum /\ [][NextSubsetSum]_vars

(* ------------------------ dijkstra_shortest_path ----------------------- *)

\* Most edges of a graph; the tentative distance below which a run is cut short.
MaxEdges == 3
DistFloor == 6

\* float('infinity')
Infinity == 1000000

\* The vertices (keys) of the graphs, the edge targets (3 is no key), the weights.
Vertices == 0..2
Targets == 0..3
WeightSeq == <<0 - 1, 0, 1, 2>>
Weights == {WeightSeq[k] : k \in 1..Len(WeightSeq)}

Edges == Vertices \X Targets \X Weights

\* The sets of at most k edges.
RECURSIVE EdgeSets(_)
EdgeSets(k) ==
    IF k = 0 THEN {{}}
    ELSE LET smaller == EdgeSets(k - 1)
         IN smaller \cup {E \cup {e} : E \in smaller, e \in Edges}

\* The (neighbor, weight) pairs in the order of the adjacency lists.
AllPairs ==
    [k \in 1..(Cardinality(Targets) * Len(WeightSeq)) |->
        <<(k - 1) \div Len(WeightSeq), WeightSeq[((k - 1) % Len(WeightSeq)) + 1]>>]

\* The graph with the edges E: vertex -> list of (neighbor, weight).
GraphOf(E) ==
    [u \in Vertices |-> SelectSeq(AllPairs, LAMBDA q : <<u, q[1], q[2]>> \in E)]

\* The graph of the specification's example.
TestGraph ==
    (0 :> <<<<1, 4>>, <<2, 1>>>>) @@ (1 :> <<<<3, 1>>>>)
        @@ (2 :> <<<<1, 2>>, <<3, 5>>>>) @@ (3 :> <<>>)

\* The graph of test_negative_weights.
NegativeTestGraph ==
    (0 :> <<<<1, 4>>, <<2, 1>>>>) @@ (1 :> <<<<3, 0 - 5>>>>)
        @@ (2 :> <<<<1, 2>>, <<3, 5>>>>) @@ (3 :> <<>>)

Graphs == {GraphOf(E) : E \in EdgeSets(MaxEdges)} \cup {TestGraph, NegativeTestGraph}

\* A distance for every vertex that starts at zero.
InitialDistancesZero(g) == [vertex \in DOMAIN g |-> 0]

\* `distances = {vertex: float('infinity') for vertex in graph}`
InitialDistances(g) == [vertex \in DOMAIN g |-> Infinity]

\* `distances[start] = 0`: the key is added when it is missing.
SetItem(d, key, value) ==
    [k \in DOMAIN d \cup {key} |-> IF k = key THEN value ELSE d[k]]

\* The number of edges of the path, the weight forgotten.
DistanceInEdges(current_distance, weight) == current_distance + 1

\* The weight taken by its magnitude.
DistanceByMagnitude(current_distance, weight) ==
    current_distance + (IF weight < 0 THEN 0 - weight ELSE weight)

\* `distance = current_distance + weight`
Distance(current_distance, weight) == current_distance + weight

\* The entry dropped also when it is as good as the known distance.
StaleOrEqual(current_distance, known) == current_distance >= known

\* `if current_distance > distances[current_vertex]: continue`
Stale(current_distance, known) == current_distance > known

\* The entry pushed also when the path is only as good as the known one.
NotWorse(distance, known) == distance <= known

\* `if distance < distances[neighbor]:`
Better(distance, known) == distance < known

\* heapq: the smallest (distance, vertex) tuple.
HeapMin(pq) ==
    CHOOSE e \in pq : \A f \in pq : e[1] < f[1] \/ (e[1] = f[1] /\ e[2] <= f[2])

\* `for neighbor, weight in graph[current_vertex]:` over the rest adj of the list.
RECURSIVE Relax(_, _, _)
Relax(st, current_distance, adj) ==
    IF st.err \/ adj = <<>> THEN st
    ELSE LET neighbor == adj[1][1]
             weight == adj[1][2]
             distance == Distance(current_distance, weight)
         IN IF neighbor \notin DOMAIN st.distances
            THEN [st EXCEPT !.err = TRUE]      \* KeyError: distances[neighbor]
            ELSE IF Better(distance, st.distances[neighbor])
            THEN Relax([st EXCEPT !.distances[neighbor] = distance,
                                  !.pq = @ \cup {<<distance, neighbor>>}],
                       current_distance, Tail(adj))
            ELSE Relax(st, current_distance, Tail(adj))

InitDijkstra ==
    /\ RunnerIdle
    /\ GenIdle
    /\ HardIdle
    /\ TimerIdle
    /\ SubsetIdle
    /\ GrowthIdle
    /\ graph \in Graphs
    /\ start \in Targets
    /\ distances = <<>>
    /\ priority_queue = {}
    /\ dj_pc = "entry"

\* Lines 35-39: the distances and the queue before the loop.
Initialize ==
    /\ dj_pc = "entry"
    /\ distances' = SetItem(InitialDistances(graph), start, 0)
    /\ priority_queue' = {<<0, start>>}
    /\ dj_pc' = "loop"
    /\ UNCHANGED <<graph, start>>
    /\ UNCHANGED notDijkstra

\* One iteration of `while priority_queue:`.
Iterate ==
    /\ dj_pc = "loop"
    /\ priority_queue # {}
    /\ LET top == HeapMin(priority_queue)
           current_distance == top[1]
           current_vertex == top[2]
           popped == priority_queue \ {top}
       IN /\ current_distance >= 0 - DistFloor
          /\ IF Stale(current_distance, distances[current_vertex])
             THEN /\ priority_queue' = popped
                  /\ UNCHANGED <<distances, dj_pc>>
             ELSE IF current_vertex \notin DOMAIN graph
             THEN \* KeyError: graph[current_vertex]
                  /\ priority_queue' = popped
                  /\ dj_pc' = "raised"
                  /\ UNCHANGED distances
             ELSE LET st == Relax([distances |-> distances, pq |-> popped,
                                   err |-> FALSE],
                                  current_distance, graph[current_vertex])
                  IN /\ distances' = st.distances
                     /\ priority_queue' = st.pq
                     /\ dj_pc' = IF st.err THEN "raised" ELSE "loop"
    /\ UNCHANGED <<graph, start>>
    /\ UNCHANGED notDijkstra

\* The queue is empty: `return distances`.
ReturnDistances ==
    /\ dj_pc = "loop"
    /\ priority_queue = {}
    /\ dj_pc' = "returned"
    /\ UNCHANGED <<graph, start, distances, priority_queue>>
    /\ UNCHANGED notDijkstra

NextDijkstra ==
    \/ Initialize
    \/ Iterate
    \/ ReturnDistances

SpecDijkstra == InitDijkstra /\ [][NextDijkstra]_vars

\* Most edges of a graph of the runs that are followed to their end.
MaxFairEdges == 2

FairGraphs ==
    {GraphOf(E) : E \in EdgeSets(MaxFairEdges)} \cup {TestGraph, NegativeTestGraph}

InitDijkstraFair ==
    /\ RunnerIdle
    /\ GenIdle
    /\ HardIdle
    /\ TimerIdle
    /\ SubsetIdle
    /\ GrowthIdle
    /\ graph \in FairGraphs
    /\ start \in Targets
    /\ distances = <<>>
    /\ priority_queue = {}
    /\ dj_pc = "entry"

\* The function runs on: a statement that can be executed is executed.
FairSpecDijkstra ==
    InitDijkstraFair /\ [][NextDijkstra]_vars /\ WF_vars(NextDijkstra)

(* -------------------- a call of any of the subjects -------------------- *)

InitSubjects == InitSubsetSum \/ InitDijkstra

NextSubjects == NextSubsetSum \/ NextDijkstra

SpecSubjects == InitSubjects /\ [][NextSubjects]_vars

(* ------------------------ the growth-rate estimator -------------------- *)

\* Longest series given to the estimator.
MaxSamples == 4

\* The durations of a series: negative, zero, positive, inf and nan floats.
TimeChoices == {Num(0 - 1), Num(0), Num(1), Num(2), Num(Infinity), NaN}

\* np.log of a float: nan of nan and of negatives, -inf of 0, inf of inf.
Log(x) ==
    IF x.nan \/ x.v < 0 THEN [kind |-> "nan", of |-> x]
    ELSE IF x.v = 0 THEN [kind |-> "-inf", of |-> x]
    ELSE IF x.v = Infinity THEN [kind |-> "inf", of |-> x]
    ELSE [kind |-> "finite", of |-> x]

\* np.isfinite
IsFinite(l) == l.kind = "finite"

\* The gate passing series of two samples.
EnoughSamplesTwo(sz) == Len(sz) > 1

\* `if len(sizes) > 2:`
EnoughSamples(sz) == Len(sz) > 2

\* The positions i with valid_indices[i].
ValidIndices(ts) == {i \in 1..Len(ts) : IsFinite(Log(ts[i]))}

\* a[valid_indices]: the elements of a at the valid positions, in order.
RECURSIVE Masked(_, _, _)
Masked(a, valid, i) ==
    IF i > Len(a) THEN <<>>
    ELSE (IF i \in valid THEN <<a[i]>> ELSE <<>>) \o Masked(a, valid, i + 1)

\* The gate and the fit shared by calculate_growth_rate and plot_execution_times:
\* what np.polyfit is given, or "N/A".
Fit(sz, ts) ==
    IF EnoughSamples(sz) /\ Cardinality(ValidIndices(ts)) > 1
    THEN [kind |-> "fit",
          log_sizes |-> Masked([i \in 1..Len(sz) |-> Log(Num(sz[i]))],
                               ValidIndices(ts), 1),
          log_times |-> Masked([i \in 1..Len(ts) |-> Log(ts[i])],
                               ValidIndices(ts), 1)]
    ELSE [kind |-> "N/A", log_sizes |-> <<>>, log_times |-> <<>>]

\* The estimator has not answered yet.
NotCalled == [kind |-> "not called", log_sizes |-> <<>>, log_times |-> <<>>]

InitGrowth ==
    /\ RunnerIdle
    /\ GenIdle
    /\ HardIdle
    /\ TimerIdle
    /\ SubsetIdle
    /\ DijkstraIdle
    /\ gr_times \in SeqsUpTo(TimeChoices, MaxSamples)
    /\ gr_sizes = [i \in 1..Len(gr_times) |-> 5 * i]
    /\ growth_rate = NotCalled
    /\ trend_line = NotCalled

\* calculate_growth_rate(sizes, times) of save_analysis_report.
CalculateGrowthRate ==
    /\ growth_rate = NotCalled
    /\ growth_rate' = Fit(gr_sizes, gr_times)
    /\ UNCHANGED <<gr_sizes, gr_times, trend_line>>
    /\ UNCHANGED notGrowth

\* "Add empirical trend line" of plot_execution_times.
PlotTrendLine ==
    /\ trend_line = NotCalled
    /\ trend_line' = Fit(gr_sizes, gr_times)
    /\ UNCHANGED <<gr_sizes, gr_times, growth_rate>>
    /\ UNCHANGED notGrowth

NextGrowth ==
    \/ CalculateGrowthRate
    \/ PlotTrendLine

SpecGrowth == InitGrowth /\ [][NextGrowth]_vars

(* ------------------- create_hard_subset_sum_instance ------------------- *)

\* Largest size asked for; sizes go down to -NegHardSize.
MaxHardSize == 60
NegHardSize == 2

\* Largest size whose instance is given to the three algorithms.
MaxSolvedSize == 6

\* The list `primes` of the function.
primes ==
    <<2, 3, 5, 7, 11, 13, 17, 19, 23, 29, 31, 37, 41, 43, 47, 53,
      59, 61, 67, 71, 73, 79, 83, 89, 97, 101, 103, 107, 109, 113,
      127, 131, 137, 139, 149, 151, 157, 163, 167, 173, 179, 181,
      191, 193, 197, 199, 211, 223>>

\* The slice lst[:k]; a negative k counts from the end.
Prefix(lst, k) ==
    IF k >= 0 THEN SubSeq(lst, 1, Min(k, Len(lst)))
    ELSE SubSeq(lst, 1, Len(lst) + k)

\* `nums = [p for p in primes if p <= size * 5][:size]`
HardNums(size) == Prefix(SelectSeq(primes, LAMBDA q : q <= size * 5), size)

InitHard ==
    /\ RunnerIdle
    /\ GenIdle
    /\ TimerIdle
    /\ SubsetIdle
    /\ DijkstraIdle
    /\ GrowthIdle
    /\ hi_size \in (0 - NegHardSize)..MaxHardSize
    /\ hi_nums = <<>>
    /\ hi_target = 0
    /\ hi_pc = "entry"
    /\ hi_results = <<>>

\* A target that the whole list reaches: sum(nums).
HardTargetReached(ns) == SumSeq(ns)

\* `sum_of_all = sum(nums)`, `target = sum_of_all + 1`
HardTarget(ns) == SumSeq(ns) + 1

\* create_hard_subset_sum_instance(size) returns (nums, sum(nums) + 1).
CreateHardInstance ==
    /\ hi_pc = "entry"
    /\ hi_nums' = HardNums(hi_size)
    /\ hi_target' = HardTarget(HardNums(hi_size))
    /\ hi_pc' = "returned"
    /\ UNCHANGED <<hi_size, hi_results>>
    /\ UNCHANGED notHard

\* The returned instance is given to the three algorithms, as benchmark_worst_case
\* gives it to subset_sum_exhaustive.
SolveHardInstance ==
    /\ hi_pc = "returned"
    /\ hi_results = <<>>
    /\ hi_size <= MaxSolvedSize
    /\ hi_results' = <<subset_sum_backtracking(hi_nums, hi_target),
                       subset_sum_exhaustive(hi_nums, hi_target),
                       subset_sum_dynamic(hi_nums, hi_target)>>
    /\ UNCHANGED <<hi_size, hi_nums, hi_target, hi_pc>>
    /\ UNCHANGED notHard

NextHard ==
    \/ CreateHardInstance
    \/ SolveHardInstance

SpecHard == InitHard /\ [][NextHard]_vars

(* ------------------------- generate_random_graph ----------------------- *)

\* Most vertices asked for.
MaxVertices == 3

\* The defaults min_weight = 1 and max_weight = 100 of the signature.
DEFAULT_MIN_WEIGHT == 1
DEFAULT_MAX_WEIGHT == 100

\* Outcomes of random.randint(lo, hi), both ends included: the two ends.
RandintChoices(lo, hi) == {w \in {lo, hi} : lo <= hi}

\* Every pair of vertices may get an edge.
EligibleWithLoops(i, j) == TRUE

\* `i != j`, the left operand of the condition.
Eligible(i, j) == i # j

InitGen ==
    /\ RunnerIdle
    /\ TimerIdle
    /\ SubsetIdle
    /\ DijkstraIdle
    /\ GrowthIdle
    /\ HardIdle
    /\ gen_n \in 0..MaxVertices
    /\ gen_graph = [i \in 0..gen_n - 1 |-> <<>>]
    /\ gen_i = 0
    /\ gen_j = 0
    /\ gen_pc = "loop"

\* One pass of the body of `for j in range(n):`; hit is random.random() <
\* edge_probability, weight the outcome of random.randint.
InnerStep(hit, weight) ==
    /\ gen_pc = "loop"
    /\ gen_i < gen_n
    /\ gen_graph' = IF Eligible(gen_i, gen_j) /\ hit
                    THEN [gen_graph EXCEPT ![gen_i] = Append(@, <<gen_j, weight>>)]
                    ELSE gen_graph
    /\ IF gen_j + 1 < gen_n
       THEN gen_j' = gen_j + 1 /\ gen_i' = gen_i
       ELSE gen_j' = 0 /\ gen_i' = gen_i + 1
    /\ UNCHANGED <<gen_n, gen_pc>>
    /\ UNCHANGED notGen

\* range(n) of the outer loop is exhausted: `return graph`.
ReturnGraph ==
    /\ gen_pc = "loop"
    /\ gen_i >= gen_n
    /\ gen_pc' = "returned"
    /\ UNCHANGED <<gen_n, gen_graph, gen_i, gen_j>>
    /\ UNCHANGED notGen

NextGen ==
    \/ \E hit \in BOOLEAN :
          \E weight \in RandintChoices(DEFAULT_MIN_WEIGHT, DEFAULT_MAX_WEIGHT) :
              InnerStep(hit, weight)
    \/ ReturnGraph

SpecGen == InitGen /\ [][NextGen]_vars

(* =========================== the claims ================================ *)

\* The averages appended so far, whichever local holds them.
Avgs == ReturnedTimes(runner, times, results)

\* avg > c for the fraction avg = num/den.
AvgGt(avg, c) ==
    IF avg.den > 0 THEN avg.num > c * avg.den ELSE avg.num < c * avg.den

RECURSIVE IsSubseq(_, _)
IsSubseq(a, b) ==
    IF a = <<>> THEN TRUE
    ELSE IF b = <<>> THEN FALSE
    ELSE IF a[1] = b[1] THEN IsSubseq(Tail(a), Tail(b))
    ELSE IsSubseq(a, Tail(b))

\* The requested sizes at which the averages appended so far were measured.
MeasuredSizes == [i \in 1..Len(samples) |-> sizes[samples[i].idx]]

TypeOK ==
    /\ pc \in {"for_size", "for_trial", "in_trial", "after_trials", "return",
               "done", "raised"}
    /\ Len(samples) = Len(Avgs)
    /\ si \in 0..Len(sizes)
    /\ (pc = "raised") = (exc # "none")
    /\ (pc = "done") = ret.set

\* C1 (as stated): no average is computed from a set of trials that contains a
\* trial whose duration exceeded the per-trial timeout T of its runner.
C1_NoOverlongTrialAveraged ==
    \A i \in 1..Len(samples) : samples[i].over = 0

\* C1 (amended): a trial whose duration exceeded T enters the average of its
\* size, but only as the last trial of that size: every average is computed
\* from trials of which none but the last exceeded T.
C1_OnlyLastTrialOverlong ==
    \A i \in 1..Len(samples) : samples[i].early = 0 /\ samples[i].over <= 1

\* An average over two trials, the second of which exceeded T.
C1_Witness ==
    \E i \in 1..Len(samples) : samples[i].over = 1 /\ samples[i].cnt = 2

\* C2: benchmark_dynamic_programming (called with num_trials >= 1) returns
\* exactly the requested sizes that produced an average, in order, the i-th
\* average measured at the i-th returned size; a size skipped on a MemoryError
\* of its first trial is not among them.
C2_ReturnedSizesAreMeasuredSizes ==
    (runner = "benchmark_dynamic_programming" /\ num_trials >= 1 /\ pc = "done")
        => /\ ret.sizes = MeasuredSizes
           /\ ret.times = times

\* C3: the average of a size is the sum of the durations of the trials that
\* completed at the size divided by their number.
C3_AverageOverCompletedTrials ==
    \A i \in 1..Len(samples) :
        samples[i].cnt > 0
            => Avgs[i].num * samples[i].cnt = samples[i].sum * Avgs[i].den

\* Some average appended so far exceeds the 900 s series ceiling.
SeriesCeilingPassed ==
    \E i \in 1..Len(Avgs) : AvgGt(Avgs[i], WC_SERIES_CEILING)

C6_EmptySizesFail ==
    (sizes = <<>> /\ num_trials >= 1) => (pc # "done" /\ calls = 0)

\* C7: a call with num_trials <= 0 (on a non-empty size list; the empty list is
\* the case of C6) fails before any trial runs: no subject call, no return.
C7_NonPositiveTrialsFail ==
    (num_trials <= 0 /\ sizes # <<>>) => (calls = 0 /\ pc # "done")

\* C8: in the runners with a per-trial ceiling, a trial is issued at a size only
\* while no earlier trial at that size exceeded the ceiling.
C8_NoTrialAfterPerTrialCutoff ==
    (runner \in CutoffRunners /\ pc \in {"for_trial", "in_trial"})
        => \A i \in 1..Len(durs) : ~Exceeds(runner, durs[i])

\* The cutoff fired on the first trial of a size that had more trials to run.
C8_Witness ==
    /\ runner \in CutoffRunners
    /\ pc = "after_trials"
    /\ Len(durs) = 1
    /\ Exceeds(runner, durs[1])
    /\ ti < actual_trials

\* C9, state part: at most one trial in progress; averages are appended in the
\* order of the requested sizes, never for the size whose trials are not yet
\* over; the returned sizes are a subsequence of the requested ones.
C9_State ==
    /\ active \in {0, 1}
    /\ (active = 1) = (pc = "in_trial")
    /\ \A i \in 1..Len(samples) :
          /\ samples[i].idx \in 1..si
          /\ i > 1 => samples[i - 1].idx < samples[i].idx
    /\ pc \in {"for_trial", "in_trial", "after_trials"}
          => \A i \in 1..Len(samples) : samples[i].idx < si
    /\ pc = "done" => IsSubseq(ret.sizes, sizes)

\* C9, step part: the sizes are taken one by one in the requested order, a trial
\* starts only when none is in progress, and an average is appended in a step
\* that runs no trial.
C9_Step ==
    /\ si' \in {si, si + 1}
    /\ calls' > calls => (active = 0 /\ calls' = calls + 1)
    /\ Len(samples') > Len(samples)
          => /\ active = 0 /\ calls' = calls
             /\ samples' = Append(samples, samples'[Len(samples')])
             /\ samples'[Len(samples')].idx = si

\* C9: sizes in the requested order, trials one after another, the sample of a
\* size only after its last trial.
C9_SequentialOrder == [](C9_State) /\ [][C9_Step]_vars

\* A second average appended after two trials at the second size.
C9_Witness ==
    /\ Len(samples) = 2
    /\ samples[2].idx = 2
    /\ samples[2].cnt = 2
    /\ pc = "done"

\* C10: one size, num_trials = 1, no failure and the duration under every
\* cutoff: the call returns one sample computed from the one subject call.
C10_SingleTrialSingleSample ==
    (Len(sizes) = 1 /\ num_trials = 1 /\ memErrs = 0 /\ maxd <= BT_TRIAL_CEILING)
        => /\ pc # "raised"
           /\ calls <= 1
           /\ pc = "done"
                => /\ calls = 1
                   /\ ret.sizes = sizes
                   /\ Len(ret.times) = 1
                   /\ samples[1].cnt = 1
                   /\ ret.times[1] = [num |-> samples[1].sum, den |-> 1]

\* benchmark_backtracking at a size over its reduction threshold returned the
\* one sample.
C10_Witness ==
    /\ runner = "benchmark_backtracking"
    /\ sizes = <<32>>
    /\ num_trials = 1
    /\ maxd = 1
    /\ pc = "done"
    /\ Len(ret.times) = 1

\* C14: when the first trial fails at every requested size,
\* benchmark_dynamic_programming ends with an empty series and no exception, and
\* so does the caller that reports the series.
C14_EmptySeriesReported ==
    (/\ runner = "benchmark_dynamic_programming"
     /\ sizes # <<>>
     /\ num_trials >= 1
     /\ memErrs = Len(sizes)
     /\ samples = <<>>
     /\ pc \in {"done", "raised"})
        => (pc = "done" /\ ret.times = <<>> /\ caller # "raised")

(* ---------------------- claims about two calls ------------------------- *)

\* Both calls are over and no subject call raised MemoryError in either.
BothOver ==
    /\ run = 2
    /\ first.set
    /\ pc \in {"done", "raised"}
    /\ memErrs = 0
    /\ first.memErrs = 0

NoCutoffIn(cut) == \A i \in 1..Len(cut) : ~cut[i]

\* C11 as stated: two calls of a runner with the same sizes and num_trials return
\* the same sizes and run the same number of trials at each size, whatever the
\* durations measured in each call.
C11_SameSizesAndTrialCounts ==
    BothOver => (RanAt = first.ran /\ ret.sizes = first.ret.sizes)

\* C11 amended: two calls of a runner with the same sizes and num_trials, in
\* neither of which a per-trial or series cutoff fires or a subject call raises
\* MemoryError, return the same sizes and run the same number of trials at each
\* size, whatever the durations measured in each call.
C11_SameWhenNoCutoffFires ==
    (BothOver /\ NoCutoffIn(CutAt) /\ NoCutoffIn(first.cut))
        => (RanAt = first.ran /\ ret.sizes = first.ret.sizes)

\* Two completed calls without cutoff that measured different durations.
C11_Witness ==
    /\ BothOver
    /\ pc = "done"
    /\ first.done
    /\ NoCutoffIn(CutAt)
    /\ NoCutoffIn(first.cut)
    /\ Len(samples) >= 1
    /\ samples[1].cnt >= 2
    /\ ret.times # first.ret.times
    /\ RanAt = first.ran

\* C12: no two calls with the same arguments that differ in whether a per-trial
\* or series cutoff fired at a size return identical output for that size.
C12_CutoffVisibleInReturnValue ==
    (BothOver /\ pc = "done" /\ first.done)
        => \A i \in 1..Len(samples) :
              (/\ i <= Len(first.ran)
               /\ first.ran[i][1] = samples[i].idx
               /\ first.cut[i] # CutAt[i])
                  => <<ret.sizes[i], ret.times[i]>>
                        # <<first.ret.sizes[i], first.ret.times[i]>>

(* --------------------- claims about time_function ---------------------- *)

\* C13: the duration time_function returns is never negative, whatever is done
\* to the system clock while func runs.
C13_DurationNeverNegative ==
    tf_pc = "returned" => execution_time >= 0

(* ------------------- claims about the subset-sum algorithms ------------ *)

AllCalled ==
    /\ bt_result # "not called"
    /\ ex_result # "not called"
    /\ dp_result # "not called"
    /\ bt_result # "idle"

\* Some sub-collection of ns, each position used at most once, sums to t.
SubsetExists(ns, t) ==
    \E S \in SUBSET (1..Len(ns)) :
        SumSeq([i \in 1..Len(ns) |-> IF i \in S THEN ns[i] ELSE 0]) = t

NonNegative(ns) == \A i \in 1..Len(ns) : ns[i] >= 0

\* C15: for every list of integers and every integer target the three algorithms
\* return the same boolean and none raises.
C15_ThreeAlgorithmsAgree ==
    AllCalled =>
        /\ bt_result \in {"True", "False"}
        /\ bt_result = ex_result
        /\ ex_result = dp_result

\* C16: for non-negative elements and target >= 0 each algorithm returns True
\* exactly when some sub-collection of nums sums to target.
C16_CorrectOnNonNegativeInputs ==
    (AllCalled /\ NonNegative(nums) /\ target >= 0)
        => /\ bt_result = PyBool(SubsetExists(nums, target))
           /\ ex_result = PyBool(SubsetExists(nums, target))
           /\ dp_result = PyBool(SubsetExists(nums, target))

\* ([3], 6): False although 3 + 3 = 6, since the position is used once.
C16_Witness ==
    /\ AllCalled
    /\ nums = <<3>>
    /\ target = 6
    /\ dp_result = "False"

(* ------------------- claims about dijkstra_shortest_path --------------- *)

\* The edges (u, v, w) of g.
EdgesOf(g) ==
    UNION {{<<u, g[u][k][1], g[u][k][2]>> : k \in 1..Len(g[u])} : u \in DOMAIN g}

MinOf(S) == CHOOSE x \in S : \A y \in S : x <= y

\* One round of Bellman-Ford: every edge between vertices of g is relaxed once.
BellmanFordRound(g, d) ==
    [v \in DOMAIN g |->
        MinOf({d[v]} \cup {d[e[1]] + e[3] :
                 e \in {f \in EdgesOf(g) : f[2] = v /\ d[f[1]] # Infinity}})]

RECURSIVE BellmanFord(_, _, _)
BellmanFord(g, d, k) ==
    IF k = 0 THEN d ELSE BellmanFord(g, BellmanFordRound(g, d), k - 1)

\* The least total weight of a path from s to each vertex of g when no cycle of
\* negative weight can be reached from s; Infinity where there is no path.
ShortestDistances(g, s) ==
    BellmanFord(g, [v \in DOMAIN g |-> IF v = s THEN 0 ELSE Infinity],
                Cardinality(DOMAIN g))

NonNegativeWeights(g) == \A e \in EdgesOf(g) : e[3] >= 0
TargetsAreKeys(g) == \A e \in EdgesOf(g) : e[2] \in DOMAIN g

DijkstraOver == dj_pc \in {"returned", "raised"}

\* C17: on a graph with non-negative weights whose edge targets are all keys,
\* dijkstra_shortest_path returns, and maps every vertex reachable from start to
\* the least total weight of a path from start to it.
C17_ShortestDistancesOfReachable ==
    (/\ DijkstraOver
     /\ NonNegativeWeights(graph)
     /\ TargetsAreKeys(graph)
     /\ start \in DOMAIN graph)
        => /\ dj_pc = "returned"
           /\ \A v \in DOMAIN graph :
                ShortestDistances(graph, start)[v] # Infinity
                    => distances[v] = ShortestDistances(graph, start)[v]

\* The example: source 0 gives {0: 0, 1: 3, 2: 1, 3: 4}.
C17_Witness ==
    /\ dj_pc = "returned"
    /\ graph = TestGraph
    /\ start = 0
    /\ distances = (0 :> 0) @@ (1 :> 3) @@ (2 :> 1) @@ (3 :> 4)

\* The vertices of g to which a path leads from s.
RECURSIVE ReachableFrom(_, _)
ReachableFrom(g, R) ==
    LET more == R \cup {e[2] : e \in {f \in EdgesOf(g) : f[1] \in R}}
    IN IF more = R THEN R ELSE ReachableFrom(g, more)

\* C18: the returned map has exactly the keys of the graph, and holds infinity
\* for exactly the vertices that no path from start reaches.
C18_KeysOfGraphAndInfinityIfUnreachable ==
    dj_pc = "returned"
        => /\ DOMAIN distances = DOMAIN graph
           /\ \A v \in DOMAIN graph :
                (v \notin ReachableFrom(graph, {start})) <=> distances[v] = Infinity

\* A returned map with a vertex no path reaches although an edge ends in it.
C18_Witness ==
    /\ dj_pc = "returned"
    /\ \E v \in DOMAIN graph :
          /\ distances[v] = Infinity
          /\ \E e \in EdgesOf(graph) : e[2] = v /\ e[1] # v

(* ------------------- claims about the growth-rate estimator ------------ *)

\* The samples the filter keeps: finite durations above zero.
Surviving(ts) == {i \in 1..Len(ts) : ~ts[i].nan /\ ts[i].v > 0 /\ ts[i].v < Infinity}

\* What the estimator must answer for the series.
GateOf(result) ==
    /\ (result.kind = "N/A") <=>
          (Len(gr_sizes) < 3 \/ Cardinality(Surviving(gr_times)) < 2)
    /\ result.kind # "N/A" =>
          /\ result.kind = "fit"
          /\ Len(result.log_times) = Cardinality(Surviving(gr_times))
          /\ Len(result.log_sizes) = Cardinality(Surviving(gr_times))
          /\ \A k \in 1..Len(result.log_times) :
                \E i \in Surviving(gr_times) :
                    /\ result.log_times[k].of = gr_times[i]
                    /\ result.log_sizes[k].of = Num(gr_sizes[i])

\* C19: calculate_growth_rate and the trend line of plot_execution_times report
\* "N/A" (no fit) exactly when the series has fewer than 3 samples or fewer than
\* 2 samples survive the filter; otherwise the fit is made on the surviving
\* samples only.
C19_GrowthRateGate ==
    /\ growth_rate.kind \notin {"idle", "not called"} => GateOf(growth_rate)
    /\ trend_line.kind \notin {"idle", "not called"} => GateOf(trend_line)

\* A series of 4 samples, one of them dropped, fitted on the other three.
C19_Witness ==
    /\ growth_rate.kind \notin {"idle", "not called"}
    /\ trend_line.kind \notin {"idle", "not called"}
    /\ Len(gr_times) = 4
    /\ growth_rate.kind = "fit"
    /\ trend_line.kind = "fit"
    /\ Len(growth_rate.log_times) = 3

(* --------------- claims about create_hard_subset_sum_instance ---------- *)

\* C20: for every size >= 0 the returned list has exactly size elements.
C20_ExactlySizeElements ==
    (hi_pc = "returned" /\ hi_size >= 0) => Len(hi_nums) = hi_size

Ascending(ns) == \A i \in 1..Len(ns) - 1 : ns[i] <= ns[i + 1]

\* C21: for every size the returned list holds only positive elements in
\* ascending order and the target is sum(nums) + 1; no sub-collection of the
\* list sums to the target, and the three algorithms return False on it.
C21_HardInstanceImpossible ==
    hi_pc = "returned" =>
        /\ \A i \in 1..Len(hi_nums) : hi_nums[i] > 0
        /\ Ascending(hi_nums)
        /\ hi_target = SumSeq(hi_nums) + 1
        /\ hi_results # <<>> =>
              /\ ~SubsetExists(hi_nums, hi_target)
              /\ hi_results = <<"False", "False", "False">>

\* An instance of several elements on which the three algorithms answered.
C21_Witness ==
    /\ hi_pc = "returned"
    /\ Len(hi_nums) >= 5
    /\ hi_results = <<"False", "False", "False">>

(* ------------- more claims about dijkstra_shortest_path ---------------- *)

\* What test_negative_weights expects.
NegativeTestExpected == (0 :> 0) @@ (1 :> 3) @@ (2 :> 1) @@ (3 :> 0 - 2)

OnNegativeTestGraph ==
    /\ DijkstraOver
    /\ graph = NegativeTestGraph
    /\ start = 0

C23_OneCallResultUnchanged ==
    /\ Len(func_calls) <= 1
    /\ tf_pc \in {"in_func", "after_func", "returned", "raised"}
          => func_calls = <<tf_args>>
    /\ tf_pc = "returned"
          => /\ tf_result = func_result
             /\ tf_result \in ResultChoices
             /\ execution_time = end_time - start_time

\* A call with two arguments has returned func's result after some time.
C23_Witness ==
    /\ tf_pc = "returned"
    /\ Len(tf_args) = 2
    /\ func_calls = <<tf_args>>
    /\ tf_result = "result"
    /\ execution_time > 0

(* ------------------- claims about generate_random_graph ---------------- *)

\* C24: the returned graph has exactly the keys 0..n-1; every edge leads to a
\* vertex 0..n-1 other than its source and weighs min_weight..max_weight; a
\* vertex has at most n-1 outgoing edges and no neighbor twice.
C24_GeneratedGraphWellFormed ==
    gen_pc = "returned" =>
        /\ DOMAIN gen_graph = 0..gen_n - 1
        /\ \A i \in DOMAIN gen_graph :
              /\ Len(gen_graph[i]) <= gen_n - 1
              /\ \A k \in 1..Len(gen_graph[i]) :
                    /\ gen_graph[i][k][1] \in 0..gen_n - 1
                    /\ gen_graph[i][k][1] # i
                    /\ gen_graph[i][k][2] >= DEFAULT_MIN_WEIGHT
                    /\ gen_graph[i][k][2] <= DEFAULT_MAX_WEIGHT
                    /\ \A m \in 1..Len(gen_graph[i]) :
                          gen_graph[i][m][1] = gen_graph[i][k][1] => m = k

\* A returned graph in which one vertex has an edge to every other vertex.
C24_Witness ==
    /\ gen_pc = "returned"
    /\ gen_n = 3
    /\ \E i \in DOMAIN gen_graph : Len(gen_graph[i]) = 2
    /\ \E i \in DOMAIN gen_graph : Len(gen_graph[i]) = 0

(* ---------------------- claims about all the subjects ------------------ *)

\* C25: no subject modifies the instance it is given: no step of a subset-sum
\* function changes the caller's nums or target, no step of
\* dijkstra_shortest_path changes the graph or start.
C25_InstanceUnchanged ==
    [][nums' = nums /\ target' = target /\ graph' = graph /\ start' = start]_vars

\* Backtracking and dynamic programming have both returned on a list that
\* filtering changes and sorting changes again.
C25_Witness ==
    /\ bt_result # "not called"
    /\ dp_result # "not called"
    /\ Filtered(nums, target) # nums
    /\ Sorted(Filtered(nums, target)) # Filtered(nums, target)

(* ------------------ claims about benchmark_worst_case ------------------ *)

\* The average num/den exceeds 900 s.
OverSeriesCeiling(avg) == avg.num > WC_SERIES_CEILING * avg.den

\* C26: what benchmark_worst_case returns is a non-empty prefix of the requested
\* sizes, with one average each; no average before the last exceeds 900 s, and
\* the prefix is shorter than the request only if its last average exceeds
\* 900 s, so a trial over 600 s alone never ends the series.
C26_WorstCaseReturnsPrefix ==
    (runner = "benchmark_worst_case" /\ pc = "done") =>
        LET k == Len(ret.sizes)
        IN /\ k >= 1
           /\ k <= Len(sizes)
           /\ ret.sizes = SubSeq(sizes, 1, k)
           /\ Len(ret.times) = k
           /\ \A i \in 1..k - 1 : ~OverSeriesCeiling(ret.times[i])
           /\ k < Len(sizes) => OverSeriesCeiling(ret.times[k])
           /\ (\A i \in 1..k : ~OverSeriesCeiling(ret.times[i])) => k = Len(sizes)

\* benchmark_worst_case returned both sizes although the last trial at the first
\* size exceeded 600 s.
C26_Witness ==
    /\ runner = "benchmark_worst_case"
    /\ pc = "done"
    /\ Len(sizes) = 2
    /\ Len(ret.sizes) = 2
    /\ samples[1].over = 1
    /\ ~OverSeriesCeiling(ret.times[1])

(* ------------------- claims about the number of trials ----------------- *)

\* Sizes below, at and above every threshold of the runners.
ThresholdSizes ==
    {0, 5, 23, 24, 25, 29, 30, 31, 32, 33, 499, 500, 501, 999, 1000, 1001}

\* The trial counts as the claim lists them.
ListedTrials(r, size, n) ==
    IF r = "benchmark_backtracking" /\ size >= 30 /\ size < 32 THEN Min(3, n)
    ELSE IF r = "benchmark_backtracking" /\ size >= 32 THEN Min(2, n)
    ELSE IF r = "benchmark_dynamic_programming" /\ size >= 500 /\ size < 1000
    THEN Min(2, n)
    ELSE IF r = "benchmark_dynamic_programming" /\ size >= 1000 THEN 1
    ELSE IF r = "benchmark_worst_case" /\ size >= 24 THEN 1
    ELSE n

\* C27: for num_trials >= 1 the trial loop of a size is set up for the listed
\* number of trials, at least 1 and at most num_trials; at least one trial and
\* never more than that number is issued at the size; and the number does not
\* grow with the size, over the requested sizes and over the sizes around the
\* thresholds.
C27_TrialCountPolicy ==
    (num_trials >= 1 /\ pc \in {"for_trial", "in_trial", "after_trials"}) =>
        /\ actual_trials = ListedTrials(runner, sizes[si], num_trials)
        /\ actual_trials >= 1
        /\ actual_trials <= num_trials
        /\ ti <= actual_trials
        /\ pc \in {"in_trial", "after_trials"} => ti >= 1
        /\ \A a, b \in ThresholdSizes \cup {sizes[i] : i \in 1..Len(sizes)} :
              a <= b => ActualTrials(runner, b, num_trials)
                            <= ActualTrials(runner, a, num_trials)

\* benchmark_backtracking asked for 3 trials has run 3 trials at size 30 and the
\* 2 trials of size 32.
C27_Witness ==
    /\ runner = "benchmark_backtracking"
    /\ num_trials = 3
    /\ sizes = <<30, 32>>
    /\ samples # <<>> /\ samples[1].cnt = 3
    /\ si = 2
    /\ pc = "after_trials"
    /\ ti = 2

(* ------------------- claims about subset_sum_exhaustive ---------------- *)

\* C28: subset_sum_exhaustive evaluates all 2^n include/exclude leaves of a
\* list of n elements, whatever the target and whether or not a subset that
\* sums to the target was found on the way.
C28_ExhaustiveEvaluatesAllLeaves ==
    ex_result # "not called" => ex_leaves = 2 ^ Len(nums)

\* On a list of three elements whose first leaf, all elements included, already
\* sums to the target, the search has gone on through all eight leaves.
C28_Witness ==
    /\ ex_result = "True"
    /\ Len(nums) = 3
    /\ SumSeq(nums) = target
    /\ ex_leaves = 8

(* ------------- claims about Dijkstra with negative weights ------------- *)

\* No cycle of negative total weight can be reached from s: the least weights
\* of the walks of at most |V| - 1 edges are not improved by one more edge.
NoNegativeCycleReachable(g, s) ==
    LET d0 == [v \in DOMAIN g |-> IF v = s THEN 0 ELSE Infinity]
        d == BellmanFord(g, d0, Cardinality(DOMAIN g) - 1)
    IN BellmanFordRound(g, d) = d

\* The call is made on a graph whose edge targets and start are keys.
WellFormedCall == TargetsAreKeys(graph) /\ start \in DOMAIN graph

\* C29: on a graph without a negative-weight cycle reachable from start,
\* dijkstra_shortest_path terminates: the call ends, by a KeyError or with the
\* priority queue empty, and when the start and all edge targets are keys of the
\* graph it returns with the queue empty.
C29_DijkstraTerminates ==
    /\ (dj_pc = "entry" /\ NoNegativeCycleReachable(graph, start))
          ~> (dj_pc = "raised" \/ (dj_pc = "returned" /\ priority_queue = {}))
    /\ (dj_pc = "entry" /\ NoNegativeCycleReachable(graph, start) /\ WellFormedCall)
          ~> (dj_pc = "returned" /\ priority_queue = {})

\* The function has returned on a graph with a cycle of weight zero through a
\* negative edge, reachable from start.
C29_Witness ==
    /\ dj_pc = "returned"
    /\ priority_queue = {}
    /\ start = 0
    /\ <<0, 1, 0 - 1>> \in EdgesOf(graph)
    /\ <<1, 0, 1>> \in EdgesOf(graph)

====
